---- MODULE Spec2Model ----
(***************************************************************************)
(* Model of src/reminder_bot.py: InvoiceReminderBot.                       *)
(*                                                                         *)
(* The bot object holds the configured schedule (reminder_days), the      *)
(* maximum reminder count (max_reminders), the SMTP credentials and the    *)
(* in-memory reminder store (self.state['invoices']), which save_state     *)
(* dumps to invoice_state.json and load_state reads back.  The billing     *)
(* provider (the set of open invoices, their due dates) and the clock are  *)
(* the environment.                                                        *)
(*                                                                         *)
(* check_and_remind is modelled as a loop: StartPass takes the snapshot    *)
(* returned by get_unpaid_invoices, EvalInvoice is one iteration of the    *)
(* for-loop body (lines 183-226, the send and the save included), EndPass  *)
(* is the return.  send_manual_reminder is one action.                     *)
(***************************************************************************)
EXTENDS Integers, Sequences, FiniteSets, TLC

\* ---------------------------------------------------------------- bounds
MaxThreshold == 2   \* schedule thresholds are drawn from 1..MaxThreshold
MaxSchedLen == 2    \* schedules have 1..MaxSchedLen entries
MaxMax == 2         \* max_reminders is drawn from 0..MaxMax
MaxDay == 3         \* the clock runs over days FirstDay..MaxDay

\* Manual reminders are issued up to this count, one past every maximum.
MaxSent == MaxMax + 1

\* ------------------------------------------------------------ environment
InvoiceIds == {"in_a", "in_b"}

\* Python's None for a nullable field; a present value v is <<v>>.
None == <<>>

\* The day the model starts on.  Days count from 1: line 185 reads a
\* due_date of 0 as a missing one.
FirstDay == 1

\* invoice['due_date'] of each open invoice: None or a day number.
DueDates == {None, <<FirstDay>>}

\* The provider's invoices: in_a carries a due date, in_b may lack one (the
\* mirror assignments add nothing, a pass takes the list in either order).
DueDateAssignments == {f \in [InvoiceIds -> DueDates] : f["in_a"] # None}

\* The values REMINDER_DAYS can take: non-empty lists of positive integers,
\* in any order (the constructor neither sorts nor rejects them).
Schedules == UNION {[1..n -> 1..MaxThreshold] : n \in 1..MaxSchedLen}

VARIABLES
    reminder_days,    \* self.reminder_days
    max_reminders,    \* self.max_reminders
    smtp_configured,  \* self.smtp_user and self.smtp_password are both set
    state,            \* self.state['invoices']: invoice id -> record
    disk,             \* invoice_state.json: [exists, invoices]
    due_date,         \* provider: invoice id -> due date or None
    unpaid,           \* provider: the open invoices with amount_due > 0
    now,              \* datetime.now(), in days
    pc,               \* "idle", or "pass" inside check_and_remind's loop
    unpaid_invoices,  \* check_and_remind's local list (the snapshot)
    idx,              \* position of the for-loop in unpaid_invoices
    evaluated,        \* history: ids that got past line 188 in this pass
    attempts,         \* history: id -> send attempts made in this pass
    lastFail,         \* history: id -> its failed attempt not yet followed by
                      \*          another evaluation or a successful send
    ev,               \* history: what the last step did
    lastEval,         \* history: id -> its last evaluation by a pass at the
                      \*          present day, not yet followed by a
                      \*          successful send for it
    priorEval,        \* history: lastEval of the invoice just evaluated, before
    delivered,        \* history: the <<id, ordinal>> reminders successfully sent
    redelivered,      \* history: the one the last step sent successfully again
    unsaved           \* history: those sent but never recorded, the process
                      \*          having stopped before save_state

vars == <<reminder_days, max_reminders, smtp_configured, state, disk, due_date,
          unpaid, now, pc, unpaid_invoices, idx, evaluated, attempts, lastFail,
          ev, lastEval, priorEval, delivered, redelivered, unsaved>>

config == <<reminder_days, max_reminders, smtp_configured, due_date>>
passHist == <<evaluated, attempts, lastFail>>
sendHist == <<delivered, unsaved>>

\* ------------------------------------------------------------- helpers
Min(S) == CHOOSE x \in S : \A y \in S : x <= y

Max2(a, b) == IF a >= b THEN a ELSE b

Range(s) == {s[i] : i \in 1..Len(s)}

\* All orderings of a finite set as duplicate-free sequences.
Orderings(S) ==
    {s \in [1..Cardinality(S) -> S] : \A i, j \in 1..Cardinality(S) : s[i] = s[j] => i = j}

NonDecreasing(s) == \A i \in 1..(Len(s) - 1) : s[i] <= s[i + 1]

\* A fresh record, as created at lines 194-197.
ZeroRecord == [reminders_sent |-> 0, last_reminder |-> None]

\* self.state['invoices'].get(id, {'reminders_sent': 0})['reminders_sent']
RemindersSent(st, id) == IF id \in DOMAIN st THEN st[id].reminders_sent ELSE 0

LastReminder(st, id) == IF id \in DOMAIN st THEN st[id].last_reminder ELSE None

\* The store with the record of id replaced or added.
Put(st, id, rec) == [k \in DOMAIN st \cup {id} |-> IF k = id THEN rec ELSE st[k]]

EmptyStore == [k \in {} |-> ZeroRecord]

\* ------------------------------------------------ persistence (lines 48-58)
\* json.dump of one record (line 58): an int becomes a JSON number, None
\* becomes null, the isoformat string becomes a JSON string.
JsonDumpRecord(rec) ==
    [reminders_sent |-> <<"number", rec.reminders_sent>>,
     last_reminder |-> IF rec.last_reminder = None THEN <<"null">>
                       ELSE <<"string", rec.last_reminder[1]>>]

\* A reader that takes every last_reminder for null.
JsonLoadRecord_DropsTimestamp(j) ==
    [reminders_sent |-> j.reminders_sent[2], last_reminder |-> None]

\* json.load of one record (line 52).
JsonLoadRecord(j) ==
    [reminders_sent |-> j.reminders_sent[2],
     last_reminder |-> IF j.last_reminder[1] = "null" THEN None
                       ELSE <<j.last_reminder[2]>>]

\* load_state that forgets what the file holds.
LoadState_Forgets(d) == EmptyStore

\* load_state: the file's content, or {'invoices': {}} when there is no file.
LoadState(d) ==
    IF d.exists THEN [id \in DOMAIN d.invoices |-> JsonLoadRecord(d.invoices[id])]
    ELSE EmptyStore

\* save_state: the whole in-memory store is written over the file.
SaveState(st) ==
    [exists |-> TRUE, invoices |-> [id \in DOMAIN st |-> JsonDumpRecord(st[id])]]

NoFile == [exists |-> FALSE, invoices |-> EmptyStore]

\* ------------------------------------------- send_reminder_email (107-174)
\* smtp: credentials configured; emailResolved: the invoice carries a customer
\* email or get_customer_info yields one; transportOk: the SMTP session raises
\* no exception.  Returns the function's boolean result.
SendReminderEmail(smtp, emailResolved, transportOk) ==
    IF ~smtp THEN FALSE
    ELSE IF ~emailResolved THEN FALSE
    ELSE transportOk

\* ------------------------------------- the escalation decision (203-226)
\* Variants of line 207 with one conjunct lost.
Qualifies_NoOrdinalCheck(i, days, sent, sched, maxr) ==
    days >= sched[i] /\ sent < maxr

Qualifies_NoMaxCheck(i, days, sent, sched, maxr) ==
    days >= sched[i] /\ sent < i

Qualifies_NoDaysCheck(i, days, sent, sched, maxr) ==
    sent < i /\ sent < maxr

\* The condition of line 207 for ordinal i.
Qualifies(i, days, sent, sched, maxr) ==
    days >= sched[i] /\ sent < i /\ sent < maxr

\* The for/break loop of lines 203-210, scanning from ordinal i: the first
\* qualifying ordinal, or 0 (reminder_number's initial value) if none.
RECURSIVE ScanFrom(_, _, _, _, _)
ScanFrom(i, days, sent, sched, maxr) ==
    IF i > Len(sched) THEN 0
    ELSE IF Qualifies(i, days, sent, sched, maxr) THEN i
    ELSE ScanFrom(i + 1, days, sent, sched, maxr)

\* A catch-up scan: the highest qualifying ordinal instead of the first.
ReminderNumber_CatchUp(days, sent, sched, maxr) ==
    LET Q == {i \in 1..Len(sched) : Qualifies(i, days, sent, sched, maxr)}
    IN  IF Q = {} THEN 0 ELSE CHOOSE i \in Q : \A j \in Q : j <= i

ReminderNumber(days, sent, sched, maxr) == ScanFrom(1, days, sent, sched, maxr)

\* The two tests of lines 223 and 225 in the other order.
SkipReason_DaysFirst(days, sent, sched, maxr) ==
    IF days < Min(Range(sched)) THEN "too_early"
    ELSE IF sent >= maxr THEN "max_reached"
    ELSE "silent"

\* The else branch of lines 222-226: what is reported when nothing is sent.
\* "silent" is the case in which neither message is printed.
SkipReason(days, sent, sched, maxr) ==
    IF sent >= maxr THEN "max_reached"
    ELSE IF days < Min(Range(sched)) THEN "too_early"
    ELSE "silent"

\* Lines 193-197: a previously unseen invoice gets a zero record in memory.
InitInvoiceState(st, id) == IF id \in DOMAIN st THEN st ELSE Put(st, id, ZeroRecord)

\* The count recorded without the timestamp.
RecordSend_NoTimestamp(st, id, n, t) ==
    Put(st, id, [reminders_sent |-> n, last_reminder |-> LastReminder(st, id)])

\* Lines 216-217 and 268-270: the record after a send of ordinal n at time t.
RecordSend(st, id, n, t) ==
    Put(st, id, [reminders_sent |-> n, last_reminder |-> <<t>>])

\* The store updated whatever the attempt returned.
StoreAfterAttempt_Always(st, id, n, sent, t) == RecordSend(st, id, n, t)

\* Lines 215-221: the store after the attempt for ordinal n returned sent.
StoreAfterAttempt(st, id, n, sent, t) ==
    IF sent THEN RecordSend(st, id, n, t) ELSE st

\* The success branch without its save_state call.
DiskAfterAttempt_NoSave(d, st, sent) == d

\* The file written whatever the attempt returned.
DiskAfterAttempt_AlwaysSave(d, st, sent) == SaveState(st)

\* Lines 215-221 and 267-274: the file after the attempt; save_state runs
\* only in the success branch, on the store as just updated.
DiskAfterAttempt(d, st, sent) == IF sent THEN SaveState(st) ELSE d

\* The ordinal computed without the recorded count.
ManualReminderNumber_IgnoresState(st, id) == 1

\* Lines 262-263: the ordinal of a manual reminder.
ManualReminderNumber(st, id) == RemindersSent(st, id) + 1

\* (datetime.now() - due_date).days, line 190.
DaysSinceDue(t, due) == t - due[1]

\* ------------------------------------------------------------ history
\* "none": a step that evaluates no invoice and attempts no send.
\* op: "eval" (one loop iteration), "manual", "restart" or "none";
\* id: the invoice; days: its days overdue; sent: its reminders_sent before;
\* dec: "send", "max_reached", "too_early", "silent" (nothing printed),
\*      "no_due" (line 188) or "not_found" (line 259); ord: the ordinal
\* attempted; ok: send_reminder_email's result; prior: lastFail[id] before.
NoEvent == [op |-> "none", id |-> "", days |-> 0, sent |-> 0, dec |-> "",
            ord |-> 0, ok |-> FALSE, prior |-> None]

Event(op, id, days, sent, dec, ord, ok, prior) ==
    [op |-> op, id |-> id, days |-> days, sent |-> sent, dec |-> dec,
     ord |-> ord, ok |-> ok, prior |-> prior]

\* A failed attempt remembered for the invoice's next evaluation.
Failure(ord, days) == <<[ord |-> ord, days |-> days]>>

\* The loop left at the first failed send.
NextIndex_AbortOnFailure(i, len, ok) == IF ok THEN i + 1 ELSE len + 1

\* The loop staying on an invoice whose send failed.
NextIndex_RetryOnFailure(i, len, ok) == IF ok THEN i + 1 ELSE i

\* Line 183: the for-loop moves to the next invoice whatever the iteration
\* did (ok is the result of its send attempt, TRUE when it made none).
NextIndex(i, len, ok) == i + 1

NoFailures == [id \in InvoiceIds |-> None]

\* An evaluation remembered for the invoice's next one.
Evaluation(dec, ord, days) == <<[dec |-> dec, ord |-> ord, days |-> days]>>

NoEvaluations == [id \in InvoiceIds |-> None]

\* The invoice whose deliveries the history keeps: in_a always carries a due
\* date, so both check_and_remind and send_manual_reminder send for it.
Observed == {"in_a"}

\* The reminders successfully sent so far, after an attempt for ordinal n
\* for which send_reminder_email returned ok.
Delivered(set, id, n, ok) ==
    IF ok /\ id \in Observed THEN set \cup {<<id, n>>} ELSE set

\* The reminder that attempt sent successfully for the second time, if it did.
Redelivered(set, id, n, ok) ==
    IF ok /\ <<id, n>> \in set THEN <<id, n>> ELSE None

\* A step that evaluates no invoice and delivers nothing.
NoEvaluation ==
    priorEval' = None /\ redelivered' = None /\ UNCHANGED <<lastEval, sendHist>>

\* ------------------------------------------------------------- Init
\* The state after InvoiceReminderBot() in a directory without a state file.
Init ==
    /\ reminder_days \in Schedules
    /\ max_reminders \in 0..MaxMax
    /\ smtp_configured \in BOOLEAN
    /\ due_date \in DueDateAssignments
    /\ disk = NoFile
    /\ state = LoadState(disk)
    /\ unpaid = InvoiceIds
    /\ now = FirstDay
    /\ pc = "idle"
    /\ unpaid_invoices = <<>>
    /\ idx = 1
    /\ evaluated = {}
    /\ attempts = [id \in InvoiceIds |-> 0]
    /\ lastFail = NoFailures
    /\ ev = NoEvent
    /\ lastEval = NoEvaluations
    /\ priorEval = None
    /\ delivered = {}
    /\ redelivered = None
    /\ unsaved = {}

\* ------------------------------------------------------------ actions
\* get_unpaid_invoices (60-89): the open invoices in the provider's order, or
\* [] when Stripe is not configured or the call raises.
GetUnpaidInvoices(fetched, order) == IF fetched THEN order ELSE <<>>

\* check_and_remind, lines 176-181: fetch the list and enter the loop.
StartPass ==
    /\ pc = "idle"
    /\ \E fetched \in BOOLEAN, order \in Orderings(unpaid) :
           unpaid_invoices' = GetUnpaidInvoices(fetched, order)
    /\ pc' = "pass"
    /\ UNCHANGED <<idx, passHist>>
    /\ ev' = NoEvent
    /\ NoEvaluation
    /\ UNCHANGED <<config, state, disk, unpaid, now>>

\* The due-date test placed after the initialisation of lines 193-197.
EvalNoDueDate_AfterInit(id) ==
    /\ due_date[id] = None
    /\ ev' = Event("eval", id, 0, RemindersSent(state, id), "no_due", 0, FALSE, None)
    /\ idx' = NextIndex(idx, Len(unpaid_invoices), TRUE)
    /\ state' = InitInvoiceState(state, id)
    /\ NoEvaluation
    /\ UNCHANGED <<disk, passHist>>

\* Lines 185-188: an invoice without a due date is passed over.
EvalNoDueDate(id) ==
    /\ due_date[id] = None
    /\ ev' = Event("eval", id, 0, RemindersSent(state, id), "no_due", 0, FALSE, None)
    /\ idx' = NextIndex(idx, Len(unpaid_invoices), TRUE)
    /\ NoEvaluation
    /\ UNCHANGED <<state, disk, passHist>>

\* Lines 190-226 for an invoice with a due date.
EvalWithDueDate(id) ==
    /\ due_date[id] # None
    /\ LET days == DaysSinceDue(now, due_date[id])
           st0 == InitInvoiceState(state, id)
           sent == st0[id].reminders_sent
           n == ReminderNumber(days, sent, reminder_days, max_reminders)
       IN  /\ evaluated' = evaluated \cup {id}
           /\ priorEval' = lastEval[id]
           /\ IF n # 0
              THEN \E emailResolved, transportOk \in BOOLEAN :
                     LET ok == SendReminderEmail(smtp_configured, emailResolved, transportOk)
                         st1 == StoreAfterAttempt(st0, id, n, ok, now)
                     IN  /\ state' = st1
                         /\ disk' = DiskAfterAttempt(disk, st1, ok)
                         /\ attempts' = [attempts EXCEPT ![id] = @ + 1]
                         /\ lastFail' = [lastFail EXCEPT ![id] =
                                             IF ok THEN None ELSE Failure(n, days)]
                         /\ idx' = NextIndex(idx, Len(unpaid_invoices), ok)
                         /\ ev' = Event("eval", id, days, sent, "send", n, ok,
                                        lastFail[id])
                         /\ lastEval' = [lastEval EXCEPT ![id] =
                                IF ok THEN None ELSE Evaluation("send", n, days)]
                         /\ delivered' = Delivered(delivered, id, n, ok)
                         /\ redelivered' = Redelivered(delivered, id, n, ok)
                         /\ UNCHANGED unsaved
              ELSE /\ state' = st0
                   /\ disk' = disk
                   /\ UNCHANGED attempts
                   /\ lastFail' = [lastFail EXCEPT ![id] = None]
                   /\ idx' = NextIndex(idx, Len(unpaid_invoices), TRUE)
                   /\ ev' = Event("eval", id, days, sent,
                                  SkipReason(days, sent, reminder_days, max_reminders),
                                  0, FALSE, lastFail[id])
                   /\ lastEval' = [lastEval EXCEPT ![id] = Evaluation(
                          SkipReason(days, sent, reminder_days, max_reminders), 0, days)]
                   /\ redelivered' = None
                   /\ UNCHANGED sendHist

\* One iteration of the for-loop of line 183.
EvalInvoice ==
    /\ pc = "pass"
    /\ idx <= Len(unpaid_invoices)
    /\ \/ EvalNoDueDate(unpaid_invoices[idx])
       \/ EvalWithDueDate(unpaid_invoices[idx])
    /\ UNCHANGED <<config, unpaid, now, pc, unpaid_invoices>>

\* The loop is exhausted: check_and_remind returns and its locals are gone.
EndPass ==
    /\ pc = "pass"
    /\ idx > Len(unpaid_invoices)
    /\ pc' = "idle"
    /\ unpaid_invoices' = <<>>
    /\ idx' = 1
    /\ evaluated' = {}
    /\ attempts' = [id \in InvoiceIds |-> 0]
    /\ ev' = NoEvent
    /\ NoEvaluation
    /\ UNCHANGED <<config, state, disk, unpaid, now, lastFail>>

\* send_manual_reminder(invoice_id), lines 253-274.
SendManualReminder ==
    /\ pc = "idle"
    /\ \E id \in InvoiceIds, fetched \in BOOLEAN, order \in Orderings(unpaid) :
         LET list == GetUnpaidInvoices(fetched, order)
             sent == RemindersSent(state, id)
             n == ManualReminderNumber(state, id)
             days == IF due_date[id] = None THEN 0 ELSE DaysSinceDue(now, due_date[id])
         IN  IF id \notin Range(list)
             THEN /\ ev' = Event("manual", id, days, sent, "not_found", 0, FALSE, None)
                  /\ NoEvaluation
                  /\ UNCHANGED <<state, disk, lastFail>>
             ELSE /\ n <= MaxSent
                  /\ \E emailResolved, transportOk \in BOOLEAN :
                       LET ok == SendReminderEmail(smtp_configured, emailResolved, transportOk)
                           st1 == StoreAfterAttempt(state, id, n, ok, now)
                       IN  /\ state' = st1
                           /\ disk' = DiskAfterAttempt(disk, st1, ok)
                           /\ lastFail' = IF ok THEN [lastFail EXCEPT ![id] = None]
                                          ELSE lastFail
                           /\ ev' = Event("manual", id, days, sent, "send", n, ok, None)
                           /\ lastEval' = IF ok THEN [lastEval EXCEPT ![id] = None]
                                          ELSE lastEval
                           /\ priorEval' = None
                           /\ delivered' = Delivered(delivered, id, n, ok)
                           /\ redelivered' = Redelivered(delivered, id, n, ok)
                           /\ UNCHANGED unsaved
    /\ UNCHANGED <<config, unpaid, now, pc, unpaid_invoices, idx, evaluated, attempts>>

\* The provider: an open invoice is paid and leaves the unpaid list.  A pass
\* works on its snapshot, so a payment during a pass acts as one after it.
Pay ==
    /\ pc = "idle"
    /\ \E id \in unpaid : unpaid' = unpaid \ {id}
    /\ ev' = NoEvent
    /\ NoEvaluation
    /\ UNCHANGED <<config, state, disk, now, pc, unpaid_invoices, idx, passHist>>

\* The clock: a day passes (between operations).
Tick ==
    /\ pc = "idle"
    /\ now < MaxDay
    /\ now' = now + 1
    /\ ev' = NoEvent
    /\ lastEval' = NoEvaluations
    /\ priorEval' = None
    /\ redelivered' = None
    /\ UNCHANGED sendHist
    /\ UNCHANGED <<config, state, disk, unpaid, pc, unpaid_invoices, idx, passHist>>

\* The process ends between operations and a new InvoiceReminderBot() is
\* constructed (lines 45-46): the store is whatever the file holds.
Restart ==
    /\ pc = "idle"
    /\ state' = LoadState(disk)
    /\ ev' = Event("restart", "", 0, 0, "", 0, FALSE, None)
    /\ NoEvaluation
    /\ UNCHANGED <<config, disk, unpaid, now, pc, unpaid_invoices, idx, passHist>>

Next ==
    \/ StartPass
    \/ EvalInvoice
    \/ EndPass
    \/ SendManualReminder
    \/ Pay
    \/ Tick
    \/ Restart

Spec == Init /\ [][Next]_vars

\* ------------------------------------------------ a stop in mid-operation
\* The process is killed after send_reminder_email has sent a reminder
\* (lines 215, 267) and before save_state (lines 218, 270) has run: what was
\* in memory is gone, the file is as it was, and the next process loads it
\* (line 46).  A stop inside save_state itself, which leaves a truncated
\* file, is not modelled.
CrashAfterSend ==
    /\ smtp_configured
    /\ \E id \in InvoiceIds, n \in 1..MaxSent :
         /\ \/ /\ pc = "pass"
               /\ idx <= Len(unpaid_invoices)
               /\ id = unpaid_invoices[idx]
               /\ due_date[id] # None
               /\ n = ReminderNumber(DaysSinceDue(now, due_date[id]),
                                     RemindersSent(state, id),
                                     reminder_days, max_reminders)
            \/ /\ pc = "idle"
               /\ id \in unpaid
               /\ n = ManualReminderNumber(state, id)
         /\ delivered' = Delivered(delivered, id, n, TRUE)
         /\ redelivered' = Redelivered(delivered, id, n, TRUE)
         /\ unsaved' = Delivered(unsaved, id, n, TRUE)
         /\ lastFail' = [lastFail EXCEPT ![id] = None]
         /\ lastEval' = [lastEval EXCEPT ![id] = None]
         /\ priorEval' = None
         /\ ev' = Event("crash", id, 0, RemindersSent(state, id), "send", n, FALSE, None)
    /\ state' = LoadState(disk)
    /\ pc' = "idle"
    /\ unpaid_invoices' = <<>>
    /\ idx' = 1
    /\ evaluated' = {}
    /\ attempts' = [id \in InvoiceIds |-> 0]
    /\ UNCHANGED <<config, disk, unpaid, now>>

\* The bot with its mail configured and the largest limit, one invoice with
\* a due date and one without.
InitCrash ==
    /\ Init
    /\ smtp_configured
    /\ max_reminders = MaxMax
    /\ due_date["in_b"] = None

NextCrash == Next \/ CrashAfterSend

SpecCrash == InitCrash /\ [][NextCrash]_vars

\* ------------------------------------------------- run_continuous (276-287)
StrictlyIncreasing(s) == \A i \in 1..(Len(s) - 1) : s[i] < s[i + 1]

\* The bot with its mail configured and a strictly increasing schedule whose
\* last threshold the clock reaches; in_a carries a due date.
InitLive ==
    /\ Init
    /\ smtp_configured
    /\ StrictlyIncreasing(reminder_days)
    /\ reminder_days[Len(reminder_days)] <= MaxDay - FirstDay
    /\ due_date["in_b"] = None

\* The invoices stay unpaid: every step but a payment.
NextLive ==
    \/ StartPass
    \/ EvalInvoice
    \/ EndPass
    \/ SendManualReminder
    \/ Tick
    \/ Restart

\* A pass whose fetch returns the invoice (lines 67-86 raise nothing).
FetchedPass == StartPass /\ "in_a" \in Range(unpaid_invoices')

\* An iteration that sends a reminder for the invoice successfully.
SuccessfulSend == EvalInvoice /\ ev'.id = "in_a" /\ ev'.ok

\* run_continuous runs a pass at start and every interval (lines 280-287):
\* time passes, passes start and fetch the invoice again and again, a
\* started pass runs its loop to the end, and a send that is attempted
\* again and again succeeds at some point.
SpecLive ==
    /\ InitLive
    /\ [][NextLive]_vars
    /\ SF_vars(Tick)
    /\ SF_vars(FetchedPass)
    /\ WF_vars(EvalInvoice)
    /\ WF_vars(EndPass)
    /\ SF_vars(SuccessfulSend)

\* ------------------------------------------- the constructor (lines 41-42)
\* The values of the REMINDER_DAYS environment variable: the comma-separated
\* thresholds as a sequence of numbers, <<>> being the empty string ''.
EnvReminderDays == Schedules \cup {<<>>}

\* A token int() cannot parse: the empty string.
EmptyToken == None

\* reminder_days_str.split(','): one token <<n>> per number; ''.split(',')
\* is [''], a single empty token.
Split(text) ==
    IF text = <<>> THEN <<EmptyToken>> ELSE [i \in 1..Len(text) |-> <<text[i]>>]

\* [int(d) for d in ...] raises ValueError on an empty token.
ConstructorRaises(text) == \E i \in 1..Len(Split(text)) : Split(text)[i] = EmptyToken

\* The state after main() has run InvoiceReminderBot() under any value of
\* REMINDER_DAYS: with a value the constructor cannot parse the exception
\* reaches main's handler (lines 310-312) and the process exits; no bot
\* exists, and reminder_days keeps the configured value.
InitEnv ==
    /\ reminder_days \in EnvReminderDays
    /\ max_reminders \in 0..MaxMax
    /\ smtp_configured \in BOOLEAN
    /\ due_date \in DueDateAssignments
    /\ disk = NoFile
    /\ state = LoadState(disk)
    /\ unpaid = InvoiceIds
    /\ now = FirstDay
    /\ pc = IF ConstructorRaises(reminder_days) THEN "exited" ELSE "idle"
    /\ unpaid_invoices = <<>>
    /\ idx = 1
    /\ evaluated = {}
    /\ attempts = [id \in InvoiceIds |-> 0]
    /\ lastFail = NoFailures
    /\ ev = IF ConstructorRaises(reminder_days)
            THEN Event("init", "", 0, 0, "ValueError", 0, FALSE, None)
            ELSE NoEvent
    /\ lastEval = NoEvaluations
    /\ priorEval = None
    /\ delivered = {}
    /\ redelivered = None
    /\ unsaved = {}

SpecEnv == InitEnv /\ [][Next]_vars

\* =====================================================================
\* Properties
\* =====================================================================
EvalEvent == ev.op = "eval" /\ ev.dec # "no_due"

\* C1: a failed send is never recorded.  In a step whose send attempt fails
\* (in check_and_remind or send_manual_reminder) every record already in the
\* store is left as it was, the only record that can appear is the zero
\* record line 194 creates for the invoice under evaluation before the
\* attempt, so every invoice's reminders_sent and last_reminder read the
\* same, and the file is not written.
C1_FailedSendNotRecorded ==
    [][ (ev'.dec = "send" /\ ~ev'.ok) =>
          /\ \A id \in DOMAIN state : id \in DOMAIN state' /\ state'[id] = state[id]
          /\ \A id \in DOMAIN state' \ DOMAIN state :
                 ev'.op = "eval" /\ id = ev'.id /\ state'[id] = ZeroRecord
          /\ \A id \in InvoiceIds :
                 /\ RemindersSent(state', id) = RemindersSent(state, id)
                 /\ LastReminder(state', id) = LastReminder(state, id)
          /\ disk' = disk ]_vars

\* A failed attempt of a pass, with working credentials, for an invoice that
\* already has a recorded and persisted reminder.
C1_Witness ==
    /\ ev.op = "eval" /\ ev.dec = "send" /\ ~ev.ok
    /\ smtp_configured
    /\ ev.sent >= 1
    /\ disk.exists /\ ev.id \in DOMAIN disk.invoices

\* C2: in every reachable state every record has
\* reminders_sent <= max_reminders.
C2_NeverExceedsMax ==
    \A id \in DOMAIN state : state[id].reminders_sent <= max_reminders

\* C3 as stated: check_and_remind attempts ordinal i only when the invoice's
\* reminders_sent is i-1, for every schedule.
C3_Sequential_AnySchedule ==
    (ev.op = "eval" /\ ev.dec = "send") => ev.sent = ev.ord - 1

\* C3 as amended: with a schedule whose thresholds never decrease (repeated
\* thresholds allowed), check_and_remind attempts ordinal i only when the
\* invoice's reminders_sent is i-1.
C3_Sequential_NonDecreasing ==
    NonDecreasing(reminder_days) => C3_Sequential_AnySchedule

\* Ordinal 2 is sent, reminder 1 being recorded, under a schedule that is
\* not strictly increasing.
C3_Witness ==
    /\ ev.op = "eval" /\ ev.dec = "send" /\ ev.ok
    /\ ev.ord = 2 /\ ev.sent = 1
    /\ Len(reminder_days) >= 2 /\ reminder_days[1] = reminder_days[2]

\* The days overdue meet the thresholds of every ordinal in lo..hi.
MeetsAll(days, lo, hi) == \A i \in lo..hi : days >= reminder_days[i]

\* C4: no catch-up.  When reminders_sent = k < max_reminders and the days
\* overdue meet the thresholds of ordinals k+1..m for some m > k+1, the
\* evaluation selects exactly ordinal k+1.
C4_NoCatchUp ==
    (/\ EvalEvent
     /\ ev.sent < max_reminders
     /\ \E m \in (ev.sent + 2)..Len(reminder_days) : MeetsAll(ev.days, ev.sent + 1, m))
    => (ev.dec = "send" /\ ev.ord = ev.sent + 1)

\* An evaluation at which two ordinals beyond the recorded count are due.
C4_Witness ==
    /\ EvalEvent
    /\ ev.sent < max_reminders
    /\ ev.sent + 2 <= Len(reminder_days)
    /\ MeetsAll(ev.days, ev.sent + 1, ev.sent + 2)
    /\ ev.dec = "send" /\ ev.ord = ev.sent + 1
    /\ reminder_days[ev.sent + 1] < reminder_days[ev.sent + 2]

\* Within one pass no invoice gets more than one send attempt.
OneAttemptPerPass == \A id \in InvoiceIds : attempts[id] <= 1

\* The evaluation follows a failed attempt for the same invoice, with no
\* successful send for it in between, at days overdue that are not smaller.
AfterFailure == EvalEvent /\ ev.prior # None /\ ev.days >= ev.prior[1].days

\* C5 as stated: at most one send attempt per invoice in a pass, and the
\* evaluation that follows a failed attempt for ordinal i, at days overdue
\* not smaller, attempts ordinal i again.
C5_RetrySameOrdinal_AnySchedule ==
    /\ OneAttemptPerPass
    /\ AfterFailure => (ev.dec = "send" /\ ev.ord = ev.prior[1].ord)

\* C5 as amended: at most one send attempt per invoice in a pass; with a
\* schedule whose thresholds never decrease, the evaluation that follows a
\* failed attempt for ordinal i, with no successful send for the invoice in
\* between and at days overdue not smaller, attempts ordinal i again.
C5_RetrySameOrdinal_NonDecreasing ==
    /\ OneAttemptPerPass
    /\ (NonDecreasing(reminder_days) /\ AfterFailure)
           => (ev.dec = "send" /\ ev.ord = ev.prior[1].ord)

\* A later pass, on a later day, retries the ordinal whose send had failed.
C5_Witness ==
    /\ AfterFailure
    /\ NonDecreasing(reminder_days)
    /\ ev.days > ev.prior[1].days
    /\ ev.dec = "send" /\ ev.ord = ev.prior[1].ord
    /\ attempts[ev.id] = 1

\* The invoices with a due date among the first n entries of the list.
WithDueDate(list, n) ==
    {list[i] : i \in {j \in 1..n : j <= Len(list) /\ due_date[list[j]] # None}}

\* C6: a failed send never aborts the batch.  At every point of a pass the
\* invoices evaluated so far are exactly the listed invoices with a due date
\* up to the loop position, and the loop position never runs past the list
\* before its end; so when the pass returns (position past the last entry)
\* every listed invoice with a due date has been evaluated.
C6_BatchNeverAborted ==
    pc = "pass" =>
      /\ idx <= Len(unpaid_invoices) + 1
      /\ evaluated = WithDueDate(unpaid_invoices, idx - 1)
      /\ (ev.op = "eval" /\ ev.dec = "send" /\ ~ev.ok /\ idx >= 2
            /\ unpaid_invoices[idx - 1] = ev.id /\ idx <= Len(unpaid_invoices))
           => ENABLED EvalInvoice

\* The pass reaches its end with both invoices evaluated although the send
\* for the first one failed.
C6_Witness ==
    /\ pc = "pass"
    /\ Len(unpaid_invoices) = 2 /\ idx = 3
    /\ lastFail[unpaid_invoices[1]] # None /\ attempts[unpaid_invoices[1]] = 1
    /\ evaluated = {unpaid_invoices[1], unpaid_invoices[2]}

\* C7: across passes and manual reminders (every step that is not a
\* restart) each invoice's reminders_sent never decreases, changes only in
\* a step that is a successful send for that invoice, where the new value is
\* max(old value, ordinal sent), and no key leaves the store; the file never
\* loses a key in any step, and a restart does not lower a count either.
C7_MonotoneCounts ==
    [][ /\ \A id \in InvoiceIds :
             /\ RemindersSent(state', id) >= RemindersSent(state, id)
             /\ RemindersSent(state', id) # RemindersSent(state, id) =>
                    /\ ev'.dec = "send" /\ ev'.ok /\ ev'.id = id
                    /\ RemindersSent(state', id) =
                           Max2(RemindersSent(state, id), ev'.ord)
        /\ ev'.op # "restart" => DOMAIN state \subseteq DOMAIN state'
        /\ DOMAIN disk.invoices \subseteq DOMAIN disk'.invoices ]_vars

\* A manual reminder has raised a count that a pass had set before.
C7_Witness ==
    /\ ev.op = "manual" /\ ev.ok /\ ev.sent >= 1
    /\ state[ev.id].reminders_sent = ev.sent + 1
    /\ \E id \in DOMAIN state : id # ev.id

\* C8: the manual override bypasses the schedule.  For an invoice in the
\* unpaid list with recorded count n (0 if absent) send_manual_reminder
\* attempts ordinal n+1 whatever the days overdue, and on success the record
\* holds n+1 and the file holds the whole store.
C8_ManualOverride ==
    (ev.op = "manual" /\ ev.dec = "send") =>
      /\ ev.ord = ev.sent + 1
      /\ ev.ok => /\ ev.id \in DOMAIN state
                  /\ state[ev.id].reminders_sent = ev.sent + 1
                  /\ disk.exists /\ LoadState(disk) = state

\* A successful manual reminder for an invoice that is not yet overdue by any
\* threshold and already has a recorded reminder.
C8_Witness ==
    /\ ev.op = "manual" /\ ev.dec = "send" /\ ev.ok
    /\ ev.sent >= 1
    /\ due_date[ev.id] # None
    /\ ev.days < Min(Range(reminder_days))

\* C9: an evaluation of an invoice whose reminders_sent >= max_reminders
\* sends nothing and reports max_reached, whatever the days overdue and the
\* schedule.
C9_MaxReached ==
    (EvalEvent /\ ev.sent >= max_reminders) =>
      /\ ev.dec = "max_reached" /\ ev.ord = 0
      /\ attempts[ev.id] = 0

\* Max reached although the days overdue meet a threshold not yet used.
C9_Witness ==
    /\ EvalEvent /\ ev.dec = "max_reached"
    /\ max_reminders >= 1
    /\ ev.sent < Len(reminder_days)
    /\ ev.days >= reminder_days[ev.sent + 1]

\* C10 as stated: an evaluation at days overdue smaller than the first
\* threshold sends nothing and reports too_early, for every record and
\* every schedule.
C10_TooEarly_FirstThreshold ==
    (EvalEvent /\ ev.days < reminder_days[1]) => ev.dec = "too_early"

\* C10 as amended: an evaluation at days overdue smaller than every
\* threshold of the schedule sends nothing; it reports max_reached when the
\* record has reminders_sent >= max_reminders and too_early otherwise.
C10_TooEarly_AllThresholds ==
    (EvalEvent /\ \A i \in 1..Len(reminder_days) : ev.days < reminder_days[i]) =>
      /\ ev.dec = IF ev.sent >= max_reminders THEN "max_reached" ELSE "too_early"
      /\ ev.ord = 0
      /\ attempts[ev.id] = 0

\* Too early for a record that has not reached the maximum, under a schedule
\* whose first threshold is not its smallest.
C10_Witness ==
    /\ EvalEvent /\ ev.dec = "too_early"
    /\ ev.sent < max_reminders
    /\ \A i \in 1..Len(reminder_days) : ev.days < reminder_days[i]
    /\ Len(reminder_days) >= 2 /\ reminder_days[2] < reminder_days[1]

\* Some ordinal beyond the recorded count has its threshold met.
SomeOrdinalDue ==
    \E i \in (ev.sent + 1)..Len(reminder_days) : ev.days >= reminder_days[i]

\* C11 as stated: every evaluation of an invoice with a due date yields
\* exactly one of Send(ordinal) with ordinal in 1..len(schedule),
\* Skip(too_early) and Skip(max_reached); when no ordinal qualifies one of the
\* two skip reasons is reported.
C11_OneOfThreeDecisions ==
    EvalEvent =>
      \/ ev.dec = "send" /\ ev.ord \in 1..Len(reminder_days)
      \/ ev.dec \in {"too_early", "max_reached"} /\ ev.ord = 0

\* C11 as amended: every evaluation yields exactly one of Send(ordinal) with
\* ordinal in 1..len(schedule), Skip(max_reached), Skip(too_early) and no
\* report at all.  It is Send exactly when reminders_sent < max_reminders and
\* some ordinal beyond reminders_sent has its threshold met; otherwise it is
\* max_reached when reminders_sent >= max_reminders, too_early when the days
\* overdue are below every threshold, and nothing is reported in the
\* remaining case (below the maximum, not below every threshold, no ordinal
\* beyond the recorded count due).
C11_OneOfFourOutcomes ==
    EvalEvent =>
      /\ ev.dec \in {"send", "max_reached", "too_early", "silent"}
      /\ ev.dec = "send" <=> (ev.sent < max_reminders /\ SomeOrdinalDue)
      /\ ev.dec = "send" => ev.ord \in 1..Len(reminder_days)
      /\ ev.dec # "send" => ev.ord = 0
      /\ ev.dec = "max_reached" <=> ev.sent >= max_reminders
      /\ ev.dec = "too_early" <=>
            (ev.sent < max_reminders
             /\ \A i \in 1..Len(reminder_days) : ev.days < reminder_days[i])
      /\ ev.dec = "silent" <=>
            (/\ ev.sent < max_reminders
             /\ ~SomeOrdinalDue
             /\ \E i \in 1..Len(reminder_days) : ev.days >= reminder_days[i])

\* An evaluation between two reminders: the first is recorded, the second not
\* yet due, and nothing is reported.
C11_Witness ==
    /\ EvalEvent /\ ev.dec = "silent"
    /\ ev.sent = 1 /\ Len(reminder_days) >= 2
    /\ ev.days >= reminder_days[1] /\ ev.days < reminder_days[2]

\* The step is a successful send for invoice id.
SentOk(id) == ev'.dec = "send" /\ ev'.ok /\ ev'.id = id

\* C12 as stated: an invoice id becomes a key of the in-memory mapping, and
\* of the file, only in a step that is a successful send for that invoice.
C12_KeyOnlyAfterOwnSend ==
    [][ \A id \in InvoiceIds :
          /\ (id \in DOMAIN state' /\ id \notin DOMAIN state) => SentOk(id)
          /\ (id \in DOMAIN disk'.invoices /\ id \notin DOMAIN disk.invoices)
                => SentOk(id) ]_vars

\* C12 as amended: evaluating a previously unseen invoice with a due date
\* inserts a zero record for it in the in-memory mapping; a key enters the
\* mapping only so or by a successful send for that invoice, and a count of 1
\* or more is recorded only by a successful send for that invoice.  The file
\* gains keys only in a step that is a successful send (for any invoice),
\* which writes every in-memory record, zero records included.
C12_KeyAfterEvaluationOrSend ==
    [][ \A id \in InvoiceIds :
          /\ (id \in DOMAIN state' /\ id \notin DOMAIN state) =>
                \/ SentOk(id)
                \/ ev'.op = "eval" /\ ev'.id = id /\ ev'.dec # "no_due"
                     /\ state'[id] = ZeroRecord
          /\ (RemindersSent(state', id) >= 1 /\ RemindersSent(state, id) = 0)
                => SentOk(id)
          /\ (id \in DOMAIN disk'.invoices /\ id \notin DOMAIN disk.invoices) =>
                /\ ev'.dec = "send" /\ ev'.ok
                /\ id \in DOMAIN state'
                /\ LoadState(disk')[id] = state'[id] ]_vars

\* The file holds a zero record for an invoice that was evaluated but never
\* sent a reminder: another invoice's send has saved it.
C12_Witness ==
    /\ disk.exists
    /\ \E id \in DOMAIN disk.invoices : LoadState(disk)[id] = ZeroRecord

\* C16: round trip across restart.  Writing any reachable store and reading it
\* back yields the same ids with the same reminders_sent and last_reminder;
\* and at every moment the file reads, for every invoice, the same
\* reminders_sent and last_reminder as the in-memory store (an absent record
\* reading as a zero record), so a process restarted between operations
\* evaluates every invoice on the same count.
C16_RoundTrip ==
    /\ LoadState(SaveState(state)) = state
    /\ pc = "idle" =>
         \A id \in InvoiceIds :
            /\ RemindersSent(LoadState(disk), id) = RemindersSent(state, id)
            /\ LastReminder(LoadState(disk), id) = LastReminder(state, id)
    /\ ev.op = "restart" => state = LoadState(disk)

\* A restarted process holding a record with a timestamp and a zero record,
\* both read back from the file.
C16_Witness ==
    /\ ev.op = "restart"
    /\ \E id \in DOMAIN state : state[id].reminders_sent >= 1
                                /\ state[id].last_reminder # None
    /\ \E id \in DOMAIN state : state[id] = ZeroRecord

\* C14: an invoice without a due date is never escalated by
\* check_and_remind.  In every loop iteration of every pass, each invoice
\* without a due date has no send attempt, its record is neither created nor
\* changed, and its own iteration is passed over without touching the file.
C14_NoDueDateNeverEscalated ==
    [][ ev'.op = "eval" =>
          \A id \in InvoiceIds : due_date[id] = None =>
             /\ attempts'[id] = 0
             /\ id \in DOMAIN state' <=> id \in DOMAIN state
             /\ id \in DOMAIN state => state'[id] = state[id]
             /\ ev'.id = id => (ev'.dec = "no_due" /\ ev'.ord = 0 /\ disk' = disk)
      ]_vars

\* The invoice without a due date is passed over, still without a record, in
\* a pass that has made a send attempt for the other invoice.
C14_Witness ==
    /\ ev.op = "eval" /\ ev.dec = "no_due"
    /\ ev.id \notin DOMAIN state
    /\ \E id \in InvoiceIds : attempts[id] = 1

\* The record has last_reminder null exactly when its count is 0.
NullIffZero(rec) == (rec.last_reminder = None) <=> (rec.reminders_sent = 0)

\* C19: in every state reachable from an empty store, every record, in
\* memory and in the file, has last_reminder = null exactly when its
\* reminders_sent = 0.
C19_NullIffZero ==
    /\ \A id \in DOMAIN state : NullIffZero(state[id])
    /\ \A id \in DOMAIN LoadState(disk) : NullIffZero(LoadState(disk)[id])

\* A store with a zero record and a record that was sent twice.
C19_Witness ==
    /\ \E id \in DOMAIN state : state[id] = ZeroRecord
    /\ \E id \in DOMAIN state : state[id].reminders_sent >= 2
                                /\ state[id].last_reminder # None

\* C13: with an empty schedule configured the program runs and never fails:
\* every evaluation of every invoice returns Skip(too_early), no reminder is
\* sent by a pass, and every pass runs over all listed invoices.
C13_EmptyScheduleAlwaysSkips ==
    reminder_days = <<>> =>
      /\ pc # "exited"
      /\ ev.dec # "ValueError"
      /\ EvalEvent => (ev.dec = "too_early" /\ ev.ord = 0)
      /\ \A id \in InvoiceIds : attempts[id] = 0
      /\ pc = "pass" => evaluated = WithDueDate(unpaid_invoices, idx - 1)

\* C15: two consecutive evaluations of one invoice at the same days overdue,
\* the first a skip or a failed send and no successful send for the invoice
\* in between, decide alike: the same ordinal or the same skip reason.
C15_NoOpPassIdempotent ==
    (EvalEvent /\ priorEval # None /\ priorEval[1].days = ev.days)
        => /\ ev.dec = priorEval[1].dec
           /\ ev.ord = priorEval[1].ord

\* A second evaluation after a first that failed to send reminder 2.
C15_Witness ==
    /\ EvalEvent
    /\ priorEval # None
    /\ priorEval[1].days = ev.days
    /\ priorEval[1].dec = "send"
    /\ ev.ord = 2

Target == Min({Len(reminder_days), max_reminders})

\* C18: with a strictly increasing schedule, an invoice that stays unpaid
\* with a due date, passes that keep running, days overdue that reach the
\* last threshold and sends that succeed in the end, reminders_sent of the
\* invoice reaches min(len(schedule), max_reminders) and stays at or above
\* it, and from then on no pass sends another reminder for it.
C18_EscalationCompletes ==
    /\ <>(RemindersSent(state, "in_a") = Target)
    /\ <>[](RemindersSent(state, "in_a") >= Target)
    /\ [][(RemindersSent(state, "in_a") >= Target
              /\ ev'.op = "eval" /\ ev'.id = "in_a") => ev'.dec # "send"]_vars

\* After two reminders, the whole schedule, a pass evaluates the invoice
\* and sends nothing.
C18_Witness ==
    /\ Target = 2
    /\ EvalEvent
    /\ ev.id = "in_a"
    /\ ev.sent = Target
    /\ ev.dec # "send"
    /\ RemindersSent(state, "in_a") = Target

====
